---- MODULE Spec2Model ----
(***************************************************************************)
(* Model of the PyCompiler bootloader/builder (src/pycclinux.c and its     *)
(* near-duplicate src/bootandbuild.c): one binary that either builds       *)
(* `stub ++ payload ++ footer` images (--build) or extracts and runs the   *)
(* payload appended to itself.                                             *)
(*                                                                         *)
(* Files are byte sequences.  Every stdio call that can fail in the code   *)
(* (fopen, fseek, fread, fwrite, remove, readlink) fails nondeterministic- *)
(* ally here.  Bytes are ByteBits wide instead of 8 so that the 8-byte     *)
(* size field (uint64_t) and `long` (LP64) fit TLC's integers; all width   *)
(* arithmetic is done modulo 2^(8*ByteBits).                               *)
(***************************************************************************)
EXTENDS Integers, Sequences, FiniteSets, TLC

\* ------------------------------------------------------------------ bounds
ByteBits == 2
StubLen == 14
MaxPayloadLen == 2
BuildBuf == 8
LaunchBuf == 2
MaxRuns == 2

\* --------------------------------------------------------------- constants
FOOTER_MAGIC_LEN == 5
U64Bytes == 8
FOOTER_LEN == FOOTER_MAGIC_LEN + U64Bytes

ByteBase == 2 ^ ByteBits
U64Mod == ByteBase ^ U64Bytes
U64Max == U64Mod - 1
LongMax == (U64Mod \div 2) - 1
LongMin == 0 - (U64Mod \div 2)

\* "PYBND", each character code reduced to ByteBits bits
MagicAscii == <<80, 89, 66, 78, 68>>
FOOTER_MAGIC == [i \in 1..FOOTER_MAGIC_LEN |-> MagicAscii[i] % ByteBase]

\* ------------------------------------------------------------- FooterCodec
\* buf[i] = (v >> (8*i)) & 0xFF, i = 0..7 (1-based here)
write_u64_le_BE(v) == [i \in 1..U64Bytes |-> (v \div (ByteBase ^ (U64Bytes - i))) % ByteBase]
write_u64_le(v) == [i \in 1..U64Bytes |-> (v \div (ByteBase ^ (i - 1))) % ByteBase]

RECURSIVE OrShift(_, _)
OrShift(buf, i) == IF i > U64Bytes THEN 0 ELSE buf[i] * (ByteBase ^ (i - 1)) + OrShift(buf, i + 1)

\* fread(buf,1,8,f) != 8 -> 0; otherwise v |= buf[i] << (8*i)
read_u64_le(buf) == IF Len(buf) # U64Bytes THEN 0 ELSE OrShift(buf, 1)

\* (long)payload_size on a two's-complement LP64 build
ToLong(v) == IF v > LongMax THEN v - U64Mod ELSE v
WrapLong(x) == ((x - LongMin) % U64Mod) + LongMin

\* ------------------------------------------------------------- sequences
Min(a, b) == IF a < b THEN a ELSE b
Take(s, n) == SubSeq(s, 1, Min(n, Len(s)))
\* bytes [pos+1 .. pos+n] of s, clipped at end of file (pos is a 0-based offset)
Slice(s, pos, n) == IF pos >= Len(s) \/ n <= 0 THEN <<>> ELSE SubSeq(s, pos + 1, Min(pos + n, Len(s)))

\* ------------------------------------------------------------ file system
Paths == {"stub", "out", "temp_pyc", "tmpname"}
Absent == <<-1>>
Exists(fs, p) == fs[p] # Absent

\* the freshly compiled bootloader: StubLen bytes, no footer magic at its tail
BareStub == [i \in 1..StubLen |-> i % ByteBase]
\* what the Compiler adapter may produce: one payload per length
Payloads == {[i \in 1..n |-> (i + 1) % ByteBase] : n \in 1..MaxPayloadLen}
\* a failed fwrite of n bytes leaves some proper prefix of them in the file
PartialLens(n) == {0} \cup (IF n > 1 THEN {n - 1} ELSE {})

ArgvSet == {<<>>, <<"x">>, <<"--build">>, <<"--build", "s">>,
            <<"--build", "s", "out">>, <<"--build", "s", "out", "x">>}
Variants == {"pycclinux", "bootandbuild"}

\* ------------------------------------------------------------------ state
VARIABLES
  variant,       \* which of the two source files was compiled
  files,         \* path -> bytes (or Absent)
  xbit,          \* paths marked executable by chmod
  runs,          \* invocations of main so far
  pc,            \* position in main / builder_mode / append / run_appended_payload
  self,          \* the file /proc/self/exe resolves to in this invocation
  argv,          \* arguments after the program name
  mode,          \* what main dispatched to
  rc,            \* process exit code
  kind,          \* the return site's failure kind
  open,          \* FILE* handles currently open
  r,             \* builder_mode: int r
  arc,           \* append_payload_to_stub: int rc
  spos,          \* read offset of f_stub
  ppos,          \* read offset of f_payload
  payload_size,  \* uint64_t payload_size (append and run)
  endpos,        \* long endpos
  magic,         \* char magic[6]
  payload_start, \* long payload_start
  remaining,     \* uint64_t remaining
  fpos,          \* file offset of f (self binary)
  compiled,      \* bytes the Compiler adapter wrote to temp_pyc in this invocation
  compInvoked,   \* build_pyc_with_python was called in this invocation
  preOut,        \* files["out"] when the invocation started
  touched,       \* paths this invocation opened, created or removed
  removed,       \* paths this invocation issued remove() for
  execd,         \* the embedded runtime was initialised to run the payload
  handed,        \* bytes of the scratch file when the Executor was invoked
  sizeRead,      \* read_u64_le was called on the footer
  built,         \* payload of the last build to "out" that returned 0 (or Absent)
  seen,          \* <<kind, code>> of every failed invocation so far
  cpc,           \* FooterCodec round trip: "start", "encoded", "decoded"
  cn,            \* FooterCodec round trip: the payload size to encode
  cbuf,          \* FooterCodec round trip: the 13 footer bytes
  cvalid,        \* FooterCodec round trip: decoded validity
  csize          \* FooterCodec round trip: decoded payload size

fsVars == <<files, xbit>>
buildLocals == <<r, arc, spos, ppos>>
runLocals == <<endpos, magic, payload_start, remaining, fpos>>
ghosts == <<compiled, compInvoked, preOut, touched, removed, execd, handed, sizeRead, built>>
codec == <<cpc, cn, cbuf, cvalid, csize>>
ctl == <<variant, runs, self, argv, mode, codec>>
vars == <<variant, files, xbit, runs, pc, self, argv, mode, rc, kind, open, r, arc, spos, ppos,
          payload_size, endpos, magic, payload_start, remaining, fpos, compiled, compInvoked,
          preOut, touched, removed, execd, handed, sizeRead, built, seen, codec>>

\* locals and per-invocation records before main runs
Fresh ==
  /\ pc = "idle" /\ mode = "none" /\ rc = 0 /\ kind = "none" /\ open = {}
  /\ self = "stub" /\ argv = <<>>
  /\ r = 0 /\ arc = 0 /\ spos = 0 /\ ppos = 0 /\ payload_size = 0
  /\ endpos = 0 /\ magic = <<>> /\ payload_start = 0 /\ remaining = 0 /\ fpos = 0
  /\ compiled = Absent /\ compInvoked = FALSE /\ preOut = Absent /\ touched = {}
  /\ removed = {} /\ execd = FALSE /\ handed = Absent /\ sizeRead = FALSE

CodecIdle == cpc = "off" /\ cn = 0 /\ cbuf = <<>> /\ cvalid = FALSE /\ csize = 0

Init ==
  /\ variant \in Variants
  /\ files = [p \in Paths |-> IF p = "stub" THEN BareStub ELSE Absent]
  /\ xbit = {"stub"}
  /\ runs = 0
  /\ built = Absent
  /\ seen = {}
  /\ Fresh
  /\ CodecIdle

\* `return code;` from main
Return(code, k) ==
  /\ pc' = "done"
  /\ rc' = code
  /\ kind' = k
  /\ seen' = IF code # 0 THEN seen \cup {<<k, code>>} ELSE seen

\* ------------------------------------------------------------------- main
\* argc = Len(a) + 1
mainDispatch(a) ==
  IF Len(a) + 1 >= 2 /\ a[1] = "--build"
  THEN IF Len(a) + 1 < 4 THEN "usage" ELSE "builder"
  ELSE "launcher"

\* a file can be run when it exists and begins with a whole bootloader image
Runnable(fs, s) == Exists(fs, s) /\ Take(fs[s], Len(fs["stub"])) = fs["stub"]

Main(a, s) ==
  /\ pc = "idle"
  /\ runs < MaxRuns
  /\ Runnable(files, s)
  /\ runs' = runs + 1
  /\ self' = s
  /\ argv' = a
  /\ mode' = mainDispatch(a)
  /\ preOut' = files["out"]
  /\ IF mainDispatch(a) = "usage"
     THEN Return(1, "usage")
     ELSE /\ pc' = IF mainDispatch(a) = "builder" THEN "b_self" ELSE "r_self"
          /\ UNCHANGED <<rc, kind, seen>>
  /\ UNCHANGED <<variant, fsVars, open, buildLocals, payload_size, runLocals, compiled,
                 compInvoked, touched, removed, execd, handed, sizeRead, built, codec>>

\* the process ends; the next invocation starts with fresh locals
Exit ==
  /\ pc = "done"
  /\ pc' = "idle" /\ mode' = "none" /\ rc' = 0 /\ kind' = "none" /\ open' = {}
  /\ self' = "stub" /\ argv' = <<>>
  /\ r' = 0 /\ arc' = 0 /\ spos' = 0 /\ ppos' = 0 /\ payload_size' = 0
  /\ endpos' = 0 /\ magic' = <<>> /\ payload_start' = 0 /\ remaining' = 0 /\ fpos' = 0
  /\ compiled' = Absent /\ compInvoked' = FALSE /\ preOut' = Absent /\ touched' = {}
  /\ removed' = {} /\ execd' = FALSE /\ handed' = Absent /\ sizeRead' = FALSE
  /\ UNCHANGED <<variant, fsVars, runs, built, seen, codec>>

\* ----------------------------------------------------------- builder_mode
\* get_self_path(selfpath) in builder_mode
B_GetSelfPath ==
  /\ pc = "b_self"
  /\ \/ Return(1, "self_path")
     \/ pc' = "b_compile" /\ UNCHANGED <<rc, kind, seen>>
  /\ UNCHANGED <<ctl, fsVars, open, buildLocals, payload_size, runLocals, ghosts>>

\* what builder_mode does with a nonzero r from build_pyc_with_python
builder_onCompileFail_fallthrough(code) == pc' = "a_open_stub" /\ UNCHANGED <<rc, kind, seen>>
builder_onCompileFail(code) == Return(code, "compile")

\* r = build_pyc_with_python(script_path, temp_pyc); if (r != 0) return r;
\* ret is 1 when the py_compile import/lookup fails, 2 when compile() raises, 0 on success
B_Compile ==
  /\ pc = "b_compile"
  /\ compInvoked' = TRUE
  /\ \/ \E code \in {1, 2} :
          /\ r' = code
          /\ builder_onCompileFail(code)
          /\ UNCHANGED <<files, compiled, touched>>
     \/ \E P \in Payloads :
          /\ r' = 0
          /\ files' = [files EXCEPT !["temp_pyc"] = P]
          /\ compiled' = P
          /\ touched' = touched \cup {"temp_pyc"}
          /\ pc' = "a_open_stub"
          /\ UNCHANGED <<rc, kind, seen>>
  /\ UNCHANGED <<ctl, xbit, open, arc, spos, ppos, payload_size, runLocals,
                 preOut, removed, execd, handed, sizeRead, built>>

\* ------------------------------------------------- append_payload_to_stub
\* out_exe = argv[3]
OutPath == "out"
\* fwrite(data) to the output: all of it, or (failed) a proper prefix
Appended(fs, p, data) == [fs EXCEPT ![p] = @ \o data]

\* rc = 1; f_stub = fopen(stub_exe, "rb"); if (!f_stub) goto end;
A_OpenStub ==
  /\ pc = "a_open_stub"
  /\ arc' = 1
  /\ \/ pc' = "a_end" /\ UNCHANGED <<open, touched>>
     \/ /\ pc' = "a_open_payload"
        /\ open' = open \cup {"f_stub"}
        /\ touched' = touched \cup {self}
  /\ spos' = 0
  /\ UNCHANGED <<ctl, fsVars, rc, kind, seen, r, ppos, payload_size, runLocals, compiled,
                 compInvoked, preOut, removed, execd, handed, sizeRead, built>>

\* f_payload = fopen(payload_pyc, "rb"); if (!f_payload) goto end;
A_OpenPayload ==
  /\ pc = "a_open_payload"
  /\ \/ pc' = "a_end" /\ UNCHANGED <<open, touched>>
     \/ /\ Exists(files, "temp_pyc")
        /\ pc' = "a_open_out"
        /\ open' = open \cup {"f_payload"}
        /\ touched' = touched \cup {"temp_pyc"}
  /\ ppos' = 0
  /\ UNCHANGED <<ctl, fsVars, rc, kind, seen, r, arc, spos, payload_size, runLocals, compiled,
                 compInvoked, preOut, removed, execd, handed, sizeRead, built>>

\* f_out = fopen(out_exe, "wb"); if (!f_out) goto end;
\* a running executable cannot be opened for writing (ETXTBSY)
A_OpenOut ==
  /\ pc = "a_open_out"
  /\ \/ pc' = "a_end" /\ UNCHANGED <<open, touched, files, built>>
     \/ /\ OutPath # self
        /\ pc' = "a_copy_stub"
        /\ open' = open \cup {"f_out"}
        /\ touched' = touched \cup {OutPath}
        /\ files' = [files EXCEPT ![OutPath] = <<>>]
        /\ built' = Absent
  /\ UNCHANGED <<ctl, xbit, rc, kind, seen, buildLocals, payload_size, runLocals, compiled,
                 compInvoked, preOut, removed, execd, handed, sizeRead>>

\* while ((n = fread(buf, 1, sizeof(buf), f_stub)) > 0)
\*     if (fwrite(buf, 1, n, f_out) != n) goto end;
\* a read error returns 0 like end of file and ends the loop
A_CopyStub ==
  /\ pc = "a_copy_stub"
  /\ LET chunk == Slice(files[self], spos, BuildBuf) IN
     \/ /\ pc' = "a_copy_payload"
        /\ payload_size' = 0
        /\ UNCHANGED <<files, spos>>
     \/ /\ chunk # <<>>
        /\ spos' = spos + Len(chunk)
        /\ UNCHANGED payload_size
        /\ \/ files' = Appended(files, OutPath, chunk) /\ pc' = "a_copy_stub"
           \/ \E k \in PartialLens(Len(chunk)) :
                files' = Appended(files, OutPath, Take(chunk, k)) /\ pc' = "a_end"
  /\ UNCHANGED <<ctl, xbit, rc, kind, seen, open, r, arc, ppos, runLocals, ghosts>>

\* while ((n = fread(buf, 1, sizeof(buf), f_payload)) > 0) {
\*     payload_size += n; if (fwrite(buf, 1, n, f_out) != n) goto end; }
A_CopyPayload ==
  /\ pc = "a_copy_payload"
  /\ LET chunk == Slice(files["temp_pyc"], ppos, BuildBuf) IN
     \/ /\ pc' = "a_magic"
        /\ UNCHANGED <<files, ppos, payload_size>>
     \/ /\ chunk # <<>>
        /\ ppos' = ppos + Len(chunk)
        /\ payload_size' = (payload_size + Len(chunk)) % U64Mod
        /\ \/ files' = Appended(files, OutPath, chunk) /\ pc' = "a_copy_payload"
           \/ \E k \in PartialLens(Len(chunk)) :
                files' = Appended(files, OutPath, Take(chunk, k)) /\ pc' = "a_end"
  /\ UNCHANGED <<ctl, xbit, rc, kind, seen, open, r, arc, spos, runLocals, ghosts>>

\* if (fwrite(FOOTER_MAGIC, 1, FOOTER_MAGIC_LEN, f_out) != FOOTER_MAGIC_LEN) goto end;
A_WriteMagic ==
  /\ pc = "a_magic"
  /\ \/ files' = Appended(files, OutPath, FOOTER_MAGIC) /\ pc' = "a_size"
     \/ \E k \in PartialLens(FOOTER_MAGIC_LEN) :
          files' = Appended(files, OutPath, Take(FOOTER_MAGIC, k)) /\ pc' = "a_end"
  /\ UNCHANGED <<ctl, xbit, rc, kind, seen, open, buildLocals, payload_size, runLocals, ghosts>>

\* write_u64_le(f_out, payload_size); rc = 0;
\* write_u64_le discards fwrite's result: a failed write is not seen
A_WriteSize ==
  /\ pc = "a_size"
  /\ \/ files' = Appended(files, OutPath, write_u64_le(payload_size))
     \/ \E k \in PartialLens(U64Bytes) :
          files' = Appended(files, OutPath, Take(write_u64_le(payload_size), k))
  /\ arc' = 0
  /\ pc' = "a_end"
  /\ UNCHANGED <<ctl, xbit, rc, kind, seen, open, r, spos, ppos, payload_size, runLocals, ghosts>>

\* end: fclose whatever is open; pycclinux.c: if (rc == 0) chmod(out_exe, 0755); return rc;
A_End ==
  /\ pc = "a_end"
  /\ open' = open \ {"f_stub", "f_payload", "f_out"}
  /\ xbit' = IF arc = 0 /\ variant = "pycclinux" THEN xbit \cup {OutPath} ELSE xbit
  /\ r' = arc
  /\ pc' = "b_after"
  /\ UNCHANGED <<ctl, files, rc, kind, seen, arc, spos, ppos, payload_size, runLocals, ghosts>>

\* remove(path): the delete is issued; it may fail
Remove(p) ==
  /\ removed' = removed \cup {p}
  /\ touched' = touched \cup {p}
  /\ \/ files' = [files EXCEPT ![p] = Absent]
     \/ UNCHANGED files

\* if (r != 0) { remove(temp_pyc); return r; }  remove(temp_pyc); return 0;
B_Finish ==
  /\ pc = "b_after"
  /\ Remove("temp_pyc")
  /\ IF r # 0
     THEN Return(r, "append") /\ UNCHANGED built
     ELSE Return(0, "none") /\ built' = compiled
  /\ UNCHANGED <<ctl, xbit, open, buildLocals, payload_size, runLocals, compiled, compInvoked,
                 preOut, execd, handed, sizeRead>>

\* ---------------------------------------------------- run_appended_payload
\* memcmp(magic, FOOTER_MAGIC, FOOTER_MAGIC_LEN) == 0
MagicMatches_short(m) == Take(m, FOOTER_MAGIC_LEN - 1) = Take(FOOTER_MAGIC, FOOTER_MAGIC_LEN - 1)
MagicMatches(m) == m = FOOTER_MAGIC

\* every early return closes f first
CloseF == open' = open \ {"f"}

\* if (!get_self_path(selfpath, sizeof(selfpath))) return 1;
R_GetSelfPath ==
  /\ pc = "r_self"
  /\ \/ Return(1, "self_path")
     \/ pc' = "r_open" /\ UNCHANGED <<rc, kind, seen>>
  /\ UNCHANGED <<ctl, fsVars, open, buildLocals, payload_size, runLocals, ghosts>>

\* FILE *f = fopen(selfpath, "rb"); if (!f) return 2;
R_Open ==
  /\ pc = "r_open"
  /\ \/ Return(2, "open_self") /\ UNCHANGED <<open, touched>>
     \/ /\ pc' = "r_seek_end"
        /\ open' = open \cup {"f"}
        /\ touched' = touched \cup {self}
        /\ UNCHANGED <<rc, kind, seen>>
  /\ UNCHANGED <<ctl, fsVars, buildLocals, payload_size, runLocals, compiled, compInvoked,
                 preOut, removed, execd, handed, sizeRead, built>>

\* if (fseek(f, 0, SEEK_END) != 0) return 3;
\* long endpos = ftell(f); if (endpos < (long)FOOTER_LEN) return 4;   (ftell fails with -1)
R_SeekEnd ==
  /\ pc = "r_seek_end"
  /\ \/ Return(3, "footer_io") /\ CloseF /\ UNCHANGED endpos
     \/ \E e \in {Len(files[self]), -1} :
          /\ endpos' = e
          /\ IF e < FOOTER_LEN
             THEN Return(4, "too_small") /\ CloseF
             ELSE pc' = "r_seek_footer" /\ UNCHANGED <<rc, kind, seen, open>>
  /\ UNCHANGED <<ctl, fsVars, buildLocals, payload_size, magic, payload_start, remaining, fpos,
                 ghosts>>

\* if (fseek(f, endpos - FOOTER_LEN, SEEK_SET) != 0) return 5;
R_SeekFooter ==
  /\ pc = "r_seek_footer"
  /\ \/ Return(5, "footer_io") /\ CloseF /\ UNCHANGED fpos
     \/ /\ fpos' = endpos - FOOTER_LEN
        /\ pc' = "r_magic"
        /\ UNCHANGED <<rc, kind, seen, open>>
  /\ UNCHANGED <<ctl, fsVars, buildLocals, payload_size, endpos, magic, payload_start, remaining,
                 ghosts>>

\* if (fread(magic, 1, FOOTER_MAGIC_LEN, f) != FOOTER_MAGIC_LEN) return 6;
\* if (memcmp(magic, FOOTER_MAGIC, FOOTER_MAGIC_LEN) != 0) return 7;
R_ReadMagic ==
  /\ pc = "r_magic"
  /\ \/ Return(6, "footer_io") /\ CloseF /\ UNCHANGED <<magic, fpos>>
     \/ LET m == Slice(files[self], fpos, FOOTER_MAGIC_LEN) IN
          /\ magic' = m
          /\ fpos' = fpos + FOOTER_MAGIC_LEN
          /\ IF MagicMatches(m)
             THEN pc' = "r_size" /\ UNCHANGED <<rc, kind, seen, open>>
             ELSE Return(7, "absent") /\ CloseF
  /\ UNCHANGED <<ctl, fsVars, buildLocals, payload_size, endpos, payload_start, remaining,
                 ghosts>>

\* endpos - (long)FOOTER_LEN - (long)payload_size, before any overflow
PayloadStartExact(e, v) == e - FOOTER_LEN - ToLong(v)
Overflows(x) == x > LongMax \/ x < LongMin
\* if (payload_start < 0) return 9;
StartRejected(e, v) == WrapLong(PayloadStartExact(e, v)) < 0

\* uint64_t payload_size = read_u64_le(f); if (payload_size == 0) return 8;
\* long payload_start = endpos - (long)FOOTER_LEN - (long)payload_size;
\* if (payload_start < 0) return 9;
\* A failed fread inside read_u64_le yields 0.  Signed overflow in the subtraction is
\* undefined: the build may wrap, or may treat the test either way.
R_ReadSize ==
  /\ pc = "r_size"
  /\ sizeRead' = TRUE
  /\ \E buf \in {Slice(files[self], fpos, U64Bytes), <<>>} :
       LET v == read_u64_le(buf)
           exact == PayloadStartExact(endpos, v) IN
         /\ payload_size' = v
         /\ fpos' = fpos + Len(buf)
         /\ IF v = 0
            THEN Return(8, "zero") /\ CloseF /\ UNCHANGED payload_start
            ELSE /\ payload_start' = WrapLong(exact)
                 /\ \/ /\ StartRejected(endpos, v) \/ Overflows(exact)
                       /\ Return(9, "corrupt") /\ CloseF
                    \/ /\ ~StartRejected(endpos, v) \/ Overflows(exact)
                       /\ pc' = "r_seek_payload"
                       /\ UNCHANGED <<rc, kind, seen, open>>
  /\ UNCHANGED <<ctl, fsVars, buildLocals, endpos, magic, remaining, compiled, compInvoked,
                 preOut, touched, removed, execd, handed, built>>

\* if (fseek(f, payload_start, SEEK_SET) != 0) return 10;   (a negative offset is EINVAL)
R_SeekPayload ==
  /\ pc = "r_seek_payload"
  /\ \/ Return(10, "payload_io") /\ CloseF /\ UNCHANGED fpos
     \/ /\ payload_start >= 0
        /\ fpos' = payload_start
        /\ pc' = "r_open_scratch"
        /\ UNCHANGED <<rc, kind, seen, open>>
  /\ UNCHANGED <<ctl, fsVars, buildLocals, payload_size, endpos, magic, payload_start, remaining,
                 ghosts>>

\* FILE *fp = fopen(tmpname, "wb"); if (!fp) return 11;   uint64_t remaining = payload_size;
R_OpenScratch ==
  /\ pc = "r_open_scratch"
  /\ \/ Return(11, "scratch") /\ CloseF /\ UNCHANGED <<files, touched, remaining>>
     \/ /\ files' = [files EXCEPT !["tmpname"] = <<>>]
        /\ touched' = touched \cup {"tmpname"}
        /\ open' = open \cup {"fp"}
        /\ remaining' = payload_size
        /\ pc' = "r_copy"
        /\ UNCHANGED <<rc, kind, seen>>
  /\ UNCHANGED <<ctl, xbit, buildLocals, payload_size, endpos, magic, payload_start, fpos,
                 compiled, compInvoked, preOut, removed, execd, handed, sizeRead, built>>

\* while (remaining > 0) { toread = min(remaining, sizeof(buf)); got = fread(buf,1,toread,f);
\*     if (got == 0) break; fwrite(buf, 1, got, fp); remaining -= got; }
\* fclose(fp); fclose(f);
\* The loop ends when remaining is 0 or got is 0 (end of file, or a read error at any
\* point); fwrite's result is discarded.
R_Copy ==
  /\ pc = "r_copy"
  /\ LET toread == Min(remaining, LaunchBuf)
         data == Slice(files[self], fpos, toread) IN
     \/ /\ open' = open \ {"fp", "f"}
        /\ pc' = "r_exec"
        /\ UNCHANGED <<files, remaining, fpos>>
     \/ /\ remaining > 0 /\ data # <<>>
        /\ remaining' = remaining - Len(data)
        /\ fpos' = fpos + Len(data)
        /\ \/ files' = Appended(files, "tmpname", data)
           \/ \E k \in PartialLens(Len(data)) :
                files' = Appended(files, "tmpname", Take(data, k))
        /\ UNCHANGED <<pc, open>>
  /\ UNCHANGED <<ctl, xbit, rc, kind, seen, buildLocals, payload_size, endpos, magic,
                 payload_start, ghosts>>

\* pycclinux.c: Py_Initialize(); result = PyRun_SimpleString(<load tmpname and exec>);
\* if (result != 0) { Py_FinalizeEx(); remove(tmpname); return 13; }
\* Py_FinalizeEx(); remove(tmpname); return 0;
R_Exec_pycclinux ==
  /\ pc = "r_exec"
  /\ variant = "pycclinux"
  /\ execd' = TRUE
  /\ handed' = files["tmpname"]
  /\ Remove("tmpname")
  /\ \/ Return(13, "exec")
     \/ Return(0, "none")
  /\ UNCHANGED <<ctl, xbit, open, buildLocals, payload_size, runLocals, compiled, compInvoked,
                 preOut, sizeRead, built>>

\* bootandbuild.c: Py_Initialize(); FILE *pyc = fopen(tmpname, "rb");
\* if (!pyc) { Py_FinalizeEx(); return 12; }
\* py_mod = PyImport_ExecCodeModule(...); if (!py_mod) { Py_FinalizeEx(); return 13; }
\* Py_FinalizeEx(); /* remove(tmpname); */ return 0;      pyc is never closed
R_Exec_bootandbuild ==
  /\ pc = "r_exec"
  /\ variant = "bootandbuild"
  /\ \/ Return(12, "open_pyc") /\ UNCHANGED <<open, execd, handed>>
     \/ /\ open' = open \cup {"pyc"}
        /\ execd' = TRUE
        /\ handed' = files["tmpname"]
        /\ \/ Return(13, "exec")
           \/ Return(0, "none")
  /\ UNCHANGED <<ctl, fsVars, buildLocals, payload_size, runLocals, compiled, compInvoked,
                 preOut, touched, removed, sizeRead, built>>

\* ----------------------------------------------------------- specification
BuilderNext ==
  \/ B_GetSelfPath \/ B_Compile \/ A_OpenStub \/ A_OpenPayload \/ A_OpenOut
  \/ A_CopyStub \/ A_CopyPayload \/ A_WriteMagic \/ A_WriteSize \/ A_End \/ B_Finish

LauncherNext ==
  \/ R_GetSelfPath \/ R_Open \/ R_SeekEnd \/ R_SeekFooter \/ R_ReadMagic \/ R_ReadSize
  \/ R_SeekPayload \/ R_OpenScratch \/ R_Copy \/ R_Exec_pycclinux \/ R_Exec_bootandbuild

Next ==
  \/ \E a \in ArgvSet, s \in {"stub", "out"} : Main(a, s)
  \/ BuilderNext
  \/ LauncherNext
  \/ Exit

Spec == Init /\ [][Next]_vars

\* ------------------------------------------- launcher on arbitrary self images
\* footers an executable file may end with: every magic with one byte changed, and
\* size fields around 0, the payload region, LONG_MAX and UINT64_MAX
FlippedMagics == {[FOOTER_MAGIC EXCEPT ![i] = (@ + 1) % ByteBase] : i \in 1..FOOTER_MAGIC_LEN}
SizeSamples == {0, 1, 3, 4, LongMax, LongMax + 1, LongMax + 2, U64Max - 1, U64Max}
Region == <<1, 2, 3>>
Images ==
  {pre \o FOOTER_MAGIC \o write_u64_le(n) : pre \in {<<>>, Region}, n \in SizeSamples}
  \cup {pre \o m \o write_u64_le(3) : pre \in {<<>>, Region}, m \in FlippedMagics}
  \cup {BareStub, <<>>, Take(FOOTER_MAGIC \o write_u64_le(1), FOOTER_LEN - 1)}

InitLaunch ==
  /\ variant \in Variants
  /\ \E img \in Images : files = [p \in Paths |-> IF p = "stub" THEN img ELSE Absent]
  /\ xbit = {"stub"}
  /\ runs = 0
  /\ built = Absent
  /\ seen = {}
  /\ Fresh
  /\ CodecIdle

NextLaunch ==
  \/ Main(<<>>, "stub")
  \/ LauncherNext
  \/ Exit

SpecLaunch == InitLaunch /\ [][NextLaunch]_vars

\* ------------------------------------------------ FooterCodec round trip
\* payload sizes in [1, UINT64_MAX]: one nonzero byte at each position, alone, plus 1,
\* or above all-ones lower bytes
CodecInputs ==
  UNION {{x * (ByteBase ^ k) + y : x \in 1..(ByteBase - 1), y \in {0, 1, (ByteBase ^ k) - 1}} :
         k \in 0..(U64Bytes - 1)}

InitCodec ==
  /\ variant \in Variants
  /\ files = [p \in Paths |-> IF p = "stub" THEN BareStub ELSE Absent]
  /\ xbit = {"stub"}
  /\ runs = 0
  /\ built = Absent
  /\ seen = {}
  /\ Fresh
  /\ cpc = "start" /\ cn \in CodecInputs /\ cbuf = <<>> /\ cvalid = FALSE /\ csize = 0

nonCodec == <<variant, files, xbit, runs, pc, self, argv, mode, rc, kind, open, r, arc, spos,
              ppos, payload_size, endpos, magic, payload_start, remaining, fpos, compiled,
              compInvoked, preOut, touched, removed, execd, handed, sizeRead, built, seen>>

\* encode: fwrite(FOOTER_MAGIC, 1, 5, f); write_u64_le(f, payload_size);
Encode ==
  /\ cpc = "start"
  /\ cbuf' = FOOTER_MAGIC \o write_u64_le(cn)
  /\ cpc' = "encoded"
  /\ UNCHANGED <<cn, cvalid, csize, nonCodec>>

\* decode: memcmp of the first 5 bytes, read_u64_le of the next 8, size 0 is invalid
Decode ==
  /\ cpc = "encoded"
  /\ LET v == read_u64_le(Slice(cbuf, FOOTER_MAGIC_LEN, U64Bytes)) IN
       /\ csize' = v
       /\ cvalid' = (MagicMatches(Take(cbuf, FOOTER_MAGIC_LEN)) /\ v # 0)
  /\ cpc' = "decoded"
  /\ UNCHANGED <<cn, cbuf, nonCodec>>

NextCodec == Encode \/ Decode

SpecCodec == InitCodec /\ [][NextCodec]_vars

\* ------------------------------------------------------------------ claims
\* the footer a file ends with, as the launcher would find it with no I/O failure
TailMagic(img) == Slice(img, Len(img) - FOOTER_LEN, FOOTER_MAGIC_LEN)
TailSize(img) == read_u64_le(Slice(img, Len(img) - U64Bytes, U64Bytes))
\* exit codes of the steps before the magic comparison (readlink, fopen, fseek, ftell, fread)
EarlyIOCodes == {1, 2, 3, 4, 5, 6}

\* C1: whenever build returns 0, the output file is exactly the bytes of the running
\* executable, then the bytes of the compiled payload, then "PYBND" and the payload
\* length as 8 little-endian bytes, and nothing else.
C1_BuildImage ==
  (pc = "done" /\ mode = "builder" /\ rc = 0)
    => files[OutPath] = files[self] \o compiled \o FOOTER_MAGIC \o write_u64_le(Len(compiled))

\* C2: when a build returned 0 with payload P and the output is then run as a launcher,
\* the scratch file handed to the Executor holds exactly the bytes of P.
C2_RoundTrip ==
  (pc = "done" /\ mode = "launcher" /\ self = OutPath /\ built # Absent /\ execd)
    => handed = built

\* C3: for every n in [1, 2^64-1], decoding the 13 bytes "PYBND" ++ little-endian(n)
\* yields valid = true and payload_size = n.
C3_FooterSymmetry ==
  /\ cpc \in {"encoded", "decoded"} =>
       /\ cn \in 1..U64Max
       /\ Len(cbuf) = FOOTER_LEN
       /\ Take(cbuf, FOOTER_MAGIC_LEN) = FOOTER_MAGIC
  /\ cpc = "decoded" => (cvalid /\ csize = cn)

C3_Witness == cpc = "decoded" /\ cn = U64Max /\ csize = U64Max /\ cvalid

\* C4: a file of size >= 13 with valid magic and a payload_size greater than
\* file_size - 13 (values >= 2^63 included) is rejected with code 9 (or by an earlier
\* I/O failure); no scratch file is created and the Executor is not started.
C4_NegativeSpan ==
  (mode = "launcher" /\ Len(files[self]) >= FOOTER_LEN
     /\ TailMagic(files[self]) = FOOTER_MAGIC
     /\ TailSize(files[self]) > Len(files[self]) - FOOTER_LEN)
    => /\ "tmpname" \notin touched
       /\ ~execd
       /\ pc = "done" => rc \in EarlyIOCodes \cup {8, 9}

\* C5 as stated: for every file of size >= 13 whose magic bytes differ from "PYBND" the
\* launcher reports code 7 and reads no payload size, creates no scratch file and does
\* not start the Executor.
C5_Original ==
  (mode = "launcher" /\ Len(files[self]) >= FOOTER_LEN
     /\ TailMagic(files[self]) # FOOTER_MAGIC)
    => /\ ~sizeRead /\ "tmpname" \notin touched /\ ~execd
       /\ pc = "done" => rc = 7

\* C5 amended: for such a file the launcher reads no payload size, creates no scratch
\* file and does not start the Executor; once it has read the 5 magic bytes it returns 7,
\* and it returns 1..6 only when an I/O step before the comparison failed.
C5_AbsentMagic ==
  (mode = "launcher" /\ Len(files[self]) >= FOOTER_LEN
     /\ TailMagic(files[self]) # FOOTER_MAGIC)
    => /\ ~sizeRead /\ "tmpname" \notin touched /\ ~execd
       /\ pc = "done" => rc \in EarlyIOCodes \cup {7}
       /\ (pc = "done" /\ magic # <<>>) => (rc = 7 /\ kind = "absent")

C5_Witness ==
  /\ pc = "done" /\ mode = "launcher" /\ rc = 7
  /\ magic = [FOOTER_MAGIC EXCEPT ![FOOTER_MAGIC_LEN] = (@ + 1) % ByteBase]

\* C6: builder mode only for exactly `--build <script> <output>`, launcher mode only for
\* no arguments, and every other shape is a usage error with exit code 1 and no side
\* effects.
C6_Dispatch ==
  pc # "idle" =>
    /\ mode = "builder" => (Len(argv) = 3 /\ argv[1] = "--build")
    /\ mode = "launcher" => argv = <<>>
    /\ (argv # <<>> /\ ~(Len(argv) = 3 /\ argv[1] = "--build"))
         => (pc = "done" /\ rc = 1 /\ kind = "usage" /\ touched = {} /\ ~execd /\ ~compInvoked)

\* C7: each of the twelve failure kinds yields a positive exit code that no other
\* failure kind yields.
ClaimKinds == {"self_path", "open_self", "too_small", "footer_io", "absent", "zero",
               "corrupt", "scratch", "compile", "append", "exec", "usage"}
C7_DistinctCodes ==
  \A p \in seen : \A q \in seen :
    (p[1] \in ClaimKinds /\ q[1] \in ClaimKinds)
      => (p[2] > 0 /\ (p[1] # q[1] => p[2] # q[2]))

\* C8: if the Compiler adapter fails, build returns the adapter's nonzero code at once
\* and the file at output_path is neither created, opened nor truncated: it keeps the
\* bytes it had before the invocation.
C8_CompileFailFrame ==
  (compInvoked /\ compiled = Absent /\ pc # "b_compile")
    => /\ pc = "done" /\ mode = "builder"
       /\ rc = r /\ rc \in {1, 2} /\ kind = "compile"
       /\ files[OutPath] = preOut
       /\ OutPath \notin touched
       /\ "f_out" \notin open

C8_Witness ==
  /\ pc = "done" /\ kind = "compile" /\ rc = 2
  /\ built # Absent
  /\ files[OutPath] = BareStub \o built \o FOOTER_MAGIC \o write_u64_le(Len(built))

\* C9: on every return of build after the Compiler adapter was invoked, a delete of the
\* temporary payload file has been issued.
C9_BuilderCleanup ==
  (pc = "done" /\ mode = "builder" /\ compInvoked) => "temp_pyc" \in removed

\* C10: in every launcher run that created the scratch file and invoked the Executor, a
\* delete of the scratch file is issued before the launcher returns.
C10_LauncherCleanup ==
  (pc = "done" /\ mode = "launcher" /\ "tmpname" \in touched /\ execd)
    => "tmpname" \in removed

\* C11: at every return from the builder's append operation and from the launcher's
\* extract-and-run operation, on success and on every failure path, no file handle the
\* operation opened is still open.
C11_NoLeakedHandles ==
  /\ pc = "b_after" => open = {}
  /\ (pc = "done" /\ mode = "launcher") => open = {}

\* C12: append_payload_to_stub returns 0 only if every read of the stub and payload and
\* every write to the output succeeded, the 8-byte payload_size field included: at its
\* return with rc = 0 the output holds the whole stub, the whole payload, the magic and
\* the 8 size bytes.
C12_SuccessMeansComplete ==
  (pc = "b_after" /\ r = 0)
    => /\ payload_size = Len(files["temp_pyc"])
       /\ files[OutPath] =
            files[self] \o files["temp_pyc"] \o FOOTER_MAGIC \o write_u64_le(payload_size)
====
